---- MODULE Spec2Model ----
(***************************************************************************)
(* Request gateway of the YouTube downloader backend (Express + yt-dlp).   *)
(* Strings are sequences of one-character strings, so that the regular     *)
(* expression of isValidYouTubeUrl is matched character by character.      *)
(***************************************************************************)
EXTENDS Integers, Sequences, FiniteSets, TLC

VARIABLES
    server,     \* the gateway process: [up, exitCode, signalled]
    req,        \* per request: route, input, handler closure variables, response
    proc,       \* per request and spawn site: the yt-dlp child process
    vParts,     \* validator check: the pieces the candidate URL is built from
    vUrl,       \* validator check: the candidate string
    vResult,    \* validator check: "none", or the BOOLEAN isValidYouTubeUrl returned
    fArg,       \* pure-function checks: the argument(s) the function is applied to
    fRes,       \* pure-function checks: the results computed so far
    tempDir,    \* janitor: the entries of TEMP_DIR
    sweep,      \* janitor: the activation of cleanupOldFiles
    clock,      \* janitor: Date.now()
    timer,      \* janitor: the time setInterval calls cleanupOldFiles next
    door,       \* middleware in front of the routes: the limiter's store and what passed
    app         \* the presentation client: React state and its requests in flight

gatewayVars == <<server, req, proc>>

harnessVars == <<vParts, vUrl, vResult, fArg, fRes>>

janitorVars == <<tempDir, sweep, clock, timer>>

vars == <<gatewayVars, harnessVars, janitorVars, door, app>>

(***************************************************************************)
(* Bounds of the model.                                                    *)
(***************************************************************************)
NReq == 2

Requests == 1..NReq

(***************************************************************************)
(* Characters and string literals.                                         *)
(***************************************************************************)
Letters ==
    {"a","b","c","d","e","f","g","h","i","j","k","l","m","n","o","p","q","r","s",
     "t","u","v","w","x","y","z","A","B","C","D","E","F","G","H","I","J","K","L",
     "M","N","O","P","Q","R","S","T","U","V","W","X","Y","Z"}

Digits == {"0","1","2","3","4","5","6","7","8","9"}

\* \w of a JavaScript regular expression: [A-Za-z0-9_]
WordChar(c) == c \in Letters \cup Digits \cup {"_"}

\* \s (the members that occur in the inputs of this model)
SpaceChar(c) == c \in {" ", "\t", "\n"}

S_http       == <<"h","t","t","p",":","/","/">>
S_https      == <<"h","t","t","p","s",":","/","/">>
S_ftp        == <<"f","t","p",":","/","/">>
S_www        == <<"w","w","w",".">>
S_youtube    == <<"y","o","u","t","u","b","e",".","c","o","m","/">>
S_youtubeX   == <<"y","o","u","t","u","b","e","X","c","o","m","/">>
S_youtu_be   == <<"y","o","u","t","u",".","b","e","/">>
S_vimeo      == <<"v","i","m","e","o",".","c","o","m","/">>
S_watch      == <<"w","a","t","c","h","?","v","=">>
S_embed      == <<"e","m","b","e","d","/">>
S_v          == <<"v","/">>
S_shorts     == <<"s","h","o","r","t","s","/">>
S_playlist   == <<"p","l","a","y","l","i","s","t","?","l","i","s","t","=">>
S_undefined  == <<"u","n","d","e","f","i","n","e","d">>
S_objObject  == <<"[","o","b","j","e","c","t"," ","O","b","j","e","c","t","]">>

(***************************************************************************)
(* isValidYouTubeUrl: the regular expression                                *)
(*   /^(https?:\/\/)?(www\.)?(youtube\.com\/(watch\?v=|embed\/|v\/|shorts\/) *)
(*     |youtu\.be\/)[\w-]+/                                                  *)
(* matched as a set of positions (characters consumed so far).             *)
(***************************************************************************)
\* the literal lit occurs in s right after the first i characters
StartsAt(s, i, lit) ==
    /\ i + Len(lit) <= Len(s)
    /\ \A k \in 1..Len(lit) : s[i + k] = lit[k]

\* positions after one of the literals, taken from a position of P
AfterAlt(s, P, lits) ==
    {i + Len(l) : <<i, l>> \in {x \in P \X lits : StartsAt(s, x[1], x[2])}}

\* positions after an optional group ( ... )?
AfterOpt(s, P, lits) == P \cup AfterAlt(s, P, lits)

\* [\w-]
IdChar(c) == WordChar(c) \/ c = "-"

PathForms == {S_watch, S_embed, S_v, S_shorts}

PathFormsNoShorts == {S_watch, S_embed, S_v}

HostPositions(s, forms) ==
    LET p1 == AfterOpt(s, {0}, {S_http, S_https})
        p2 == AfterOpt(s, p1, {S_www})
    IN  AfterAlt(s, AfterAlt(s, p2, {S_youtube}), forms)
            \cup AfterAlt(s, p2, {S_youtu_be})

\* youtubeRegex.test(str) for a string str
RegexTestNoShorts(s) ==
    \E i \in HostPositions(s, PathFormsNoShorts) : i + 1 <= Len(s) /\ IdChar(s[i + 1])

RegexTest(s) ==
    \E i \in HostPositions(s, PathForms) : i + 1 <= Len(s) /\ IdChar(s[i + 1])

(***************************************************************************)
(* JavaScript values a request can carry as url: a value is                 *)
(* [kind, items]; a string is kind "string" with items = <<its text>>, an   *)
(* array of strings is kind "array" with its elements, and undefined and a  *)
(* plain object carry no items.                                            *)
(***************************************************************************)
JsUndefined == [kind |-> "undefined", items |-> <<>>]
JsObject    == [kind |-> "object", items |-> <<>>]
JsString(s) == [kind |-> "string", items |-> <<s>>]
JsArray(xs) == [kind |-> "array", items |-> xs]

RECURSIVE JoinComma(_)
JoinComma(xs) ==
    IF Len(xs) = 0 THEN <<>>
    ELSE IF Len(xs) = 1 THEN xs[1]
    ELSE xs[1] \o <<",">> \o JoinComma(Tail(xs))

\* ToString, which RegExp.prototype.test applies to its argument
JsToString(v) ==
    CASE v.kind = "string"    -> v.items[1]
      [] v.kind = "array"     -> JoinComma(v.items)
      [] v.kind = "object"    -> S_objObject
      [] OTHER                -> S_undefined

\* ToBoolean, as in `!url`
Truthy(v) ==
    CASE v.kind = "string"    -> Len(v.items[1]) > 0
      [] v.kind = "undefined" -> FALSE
      [] OTHER                -> TRUE

isValidYouTubeUrl(url) == RegexTest(JsToString(url))

\* the guard `!url || !isValidYouTubeUrl(url)` of the three route handlers
GateRejectsNoValidate(url) == ~Truthy(url)

GateRejects(url) == ~Truthy(url) \/ ~isValidYouTubeUrl(url)

(***************************************************************************)
(* Output of the extractor.  Standard output is a sequence of tokens        *)
(* [k, v]; a JSON object is "{", one token per member, "}".  Standard error *)
(* is a sequence of words.  Streams arrive in chunks.                      *)
(***************************************************************************)
Tok(k, v) == [k |-> k, v |-> v]
LB      == Tok("{", "")
RB      == Tok("}", "")
NullTok == Tok("null", "")
NumTok  == Tok("number", "7")

InfoKeys == {"title", "duration", "thumbnail", "uploader", "view_count", "formats"}

NoInfo == [f \in InfoKeys |-> "undefined"]

DocA == [title |-> "Never Gonna Give You Up", duration |-> "212", thumbnail |-> "thA",
         uploader |-> "Rick Astley", view_count |-> "1000", formats |-> "fmtA"]

DocB == [title |-> "Me at the zoo", duration |-> "19", thumbnail |-> "thB",
         uploader |-> "undefined", view_count |-> "5", formats |-> "undefined"]

TextA1 == <<LB, Tok("title", "Never Gonna Give You Up"), Tok("duration", "212"),
            Tok("thumbnail", "thA")>>
TextA2 == <<Tok("uploader", "Rick Astley"), Tok("view_count", "1000"),
            Tok("formats", "fmtA"), RB>>
TextB  == <<LB, Tok("id", "jNQXAC9IVRw"), Tok("view_count", "4"), Tok("title", "Me at the zoo"),
            Tok("duration", "19"), Tok("thumbnail", "thB"), Tok("view_count", "5"), RB>>

\* flatten a sequence of chunks
RECURSIVE Concat(_)
Concat(chunks) == IF chunks = <<>> THEN <<>> ELSE Head(chunks) \o Concat(Tail(chunks))

SetMax(S) == CHOOSE x \in S : \A y \in S : y <= x

\* JSON.parse(text): [kind, obj]; kind "error" is a thrown SyntaxError.  A
\* repeated member name keeps its last value.
JSONparse(text) ==
    LET n == Len(text)
        Member(name) ==
            LET at == {i \in 2..(n - 1) : text[i].k = name}
            IN  IF at = {} THEN "undefined" ELSE text[SetMax(at)].v
    IN  IF text = <<NullTok>> THEN [kind |-> "null", obj |-> NoInfo]
        \* a number has no members: every property read gives undefined
        ELSE IF text = <<NumTok>> THEN [kind |-> "scalar", obj |-> NoInfo]
        ELSE IF /\ n >= 2
                /\ text[1] = LB
                /\ text[n] = RB
                /\ \A i \in 2..(n - 1) : text[i].k \notin {"{", "}", "null", "number"}
             THEN [kind |-> "object", obj |-> [f \in InfoKeys |-> Member(f)]]
        ELSE [kind |-> "error", obj |-> NoInfo]

\* errorOutput.includes('Sign in to confirm')
Signature == <<"Sign", "in", "to", "confirm">>

Includes(words, pat) ==
    \E i \in 0..(Len(words) - Len(pat)) : \A k \in 1..Len(pat) : words[i + k] = pat[k]

(***************************************************************************)
(* What a yt-dlp child process does, chosen when it is spawned: whether it  *)
(* launches, the chunks it writes to stdout and stderr, its exit code, and  *)
(* (for the properties) the document its standard output spells: wf is     *)
(* "object", "null" or "malformed".  A process carries the name of its     *)
(* script and the number of chunks it has delivered.                       *)
(***************************************************************************)
Script(out, err, code, auth, wf, doc) ==
    [launch |-> TRUE, out |-> out, err |-> err, code |-> code, auth |-> auth,
     wf |-> wf, doc |-> doc]

\* stderr texts: the anti-automation refusal (in two chunks), another failure, a
\* text that shares words with the refusal, and a warning that quotes it
AuthErr   == << <<"ERROR", "Sign", "in">>, <<"to", "confirm", "you", "are", "not", "a", "bot">> >>
OtherErr  == << <<"ERROR", "Video", "unavailable">> >>
NearErr   == << <<"Sign", "in", "to", "view", "confirm">> >>
WarnSig   == << <<"WARNING", "Sign", "in", "to", "confirm">> >>

TitleChunkB1 == <<" ","M","e"," ","a","t">>
TitleChunkB2 == <<"H","i",":"," "," ","t","h","e","-","z","o","o","!","\n">>

Byte(b) == Tok("byte", b)

\* spawn failed (ENOENT, EACCES, EAGAIN): 'close' carries the negated errno
LaunchFailure == "spawn-failure"

Sc(name) ==
    CASE name = "docA"        -> Script(<<TextA1, TextA2>>, <<>>, 0, FALSE, "object", DocA)
      [] name = "docB-warn"   -> Script(<<TextB>>, WarnSig, 0, TRUE, "object", DocB)
      [] name = "number"      -> Script(<< <<NumTok>> >>, <<>>, 0, FALSE, "scalar", NoInfo)
      [] name = "null"        -> Script(<< <<NullTok>> >>, <<>>, 0, FALSE, "null", NoInfo)
      [] name = "truncated"   -> Script(<<TextA1>>, <<>>, 0, FALSE, "malformed", NoInfo)
      [] name = "tail-only"   -> Script(<<TextA2>>, <<>>, 0, FALSE, "malformed", NoInfo)
      [] name = "auth"        -> Script(<<>>, AuthErr, 1, TRUE, "malformed", NoInfo)
      [] name = "auth-partial" -> Script(<<TextA1>>, AuthErr, 1, TRUE, "malformed", NoInfo)
      [] name = "unavailable" -> Script(<<>>, OtherErr, 1, FALSE, "malformed", NoInfo)
      [] name = "near-auth"   -> Script(<<>>, NearErr, 1, FALSE, "malformed", NoInfo)
      [] name = "silent-fail" -> Script(<<>>, <<>>, 1, FALSE, "malformed", NoInfo)
      [] name = "hang"        -> Script(<<>>, <<>>, 0, FALSE, "malformed", NoInfo)
      [] name = "title"       -> Script(<<TitleChunkB1, TitleChunkB2>>, <<>>, 0, FALSE,
                                        "malformed", NoInfo)
      [] name = "video"       -> Script(<< <<Byte("b1"), Byte("b2")>>, <<Byte("b3")>> >>,
                                        <<>>, 0, FALSE, "malformed", NoInfo)
      [] name = "listing"     -> Script(<< <<Tok("line", "137 mp4 1080p")>>,
                                           <<Tok("line", "140 m4a audio")>> >>,
                                        <<>>, 0, FALSE, "malformed", NoInfo)
      [] OTHER                -> [launch |-> FALSE, out |-> <<>>, err |-> <<>>,
                                  code |-> 0 - 2, auth |-> FALSE, wf |-> "malformed",
                                  doc |-> NoInfo]

InfoScripts ==
    {"docA", "docB-warn", "number", "null", "truncated", "auth", "unavailable",
     "near-auth", "silent-fail", "hang", "auth-partial"}

\* the extractor stalls (on the network) and never exits: no 'close' event
Hangs(name) == name = "hang"

FallbackScripts == {"docA", "number", "null", "tail-only", "auth"}

TitleScripts == {"title", "unavailable"}

StreamScripts == {"video", "silent-fail"}

FormatsScripts == {"listing", "unavailable"}

(***************************************************************************)
(* Filename sanitization of the fetched title (download handler):          *)
(*   data.toString().trim().replace(/[^\w\s-]/g, '')                        *)
(*       .replace(/\s+/g, '_').substring(0, 100)                            *)
(***************************************************************************)
TitleMaxLen == 100

RECURSIVE TrimLeft(_)
TrimLeft(s) == IF s # <<>> /\ SpaceChar(Head(s)) THEN TrimLeft(Tail(s)) ELSE s

RECURSIVE TrimRight(_)
TrimRight(s) ==
    IF s # <<>> /\ SpaceChar(s[Len(s)]) THEN TrimRight(SubSeq(s, 1, Len(s) - 1)) ELSE s

Trim(s) == TrimRight(TrimLeft(s))

SafeOrSpace(c) == WordChar(c) \/ SpaceChar(c) \/ c = "-"

StripUnsafe(s) == SelectSeq(s, SafeOrSpace)

\* .replace(/\s+/g, '_'): the first character of a run of whitespace becomes
\* the underscore and the rest of the run goes
CollapseSpaces(s) ==
    LET marked == [i \in 1..Len(s) |->
                      IF ~SpaceChar(s[i]) THEN s[i]
                      ELSE IF i > 1 /\ SpaceChar(s[i - 1]) THEN "" ELSE "_"]
        Kept(c) == c # ""
    IN  SelectSeq(marked, Kept)

SubstringWhole(s, n) == s

Substring(s, n) == IF Len(s) <= n THEN s ELSE SubSeq(s, 1, n)

Sanitize(raw) == Substring(CollapseSpaces(StripUnsafe(Trim(raw))), TitleMaxLen)

S_default == <<"y","o","u","t","u","b","e","_","v","i","d","e","o">>
S_mp4     == <<".","m","p","4">>

\* const { url, quality = 'best' } = req.query
QualityParam(v) == IF v = "undefined" THEN "best" ELSE v

\* the switch, were it to compare without regard to case
FormatSelectorIgnoreCase(quality) ==
    CASE quality \in {"4k", "4K"} -> "bestvideo[height<=2160]+bestaudio/best[height<=2160]"
      [] quality = "1080p" -> "bestvideo[height<=1080]+bestaudio/best[height<=1080]"
      [] quality = "720p"  -> "bestvideo[height<=720]+bestaudio/best[height<=720]"
      [] quality = "480p"  -> "bestvideo[height<=480]+bestaudio/best[height<=480]"
      [] quality = "360p"  -> "bestvideo[height<=360]+bestaudio/best[height<=360]"
      [] OTHER             -> "best"

\* the switch on quality of the download handler
FormatSelector(quality) ==
    CASE quality = "4k"    -> "bestvideo[height<=2160]+bestaudio/best[height<=2160]"
      [] quality = "1080p" -> "bestvideo[height<=1080]+bestaudio/best[height<=1080]"
      [] quality = "720p"  -> "bestvideo[height<=720]+bestaudio/best[height<=720]"
      [] quality = "480p"  -> "bestvideo[height<=480]+bestaudio/best[height<=480]"
      [] quality = "360p"  -> "bestvideo[height<=360]+bestaudio/best[height<=360]"
      [] OTHER             -> "best"

(***************************************************************************)
(* Responses.                                                              *)
(***************************************************************************)
E_Invalid  == "Invalid YouTube URL provided"
E_Exec     == "Failed to execute video processor"
E_Fetch    == "Failed to fetch video information"
E_Parse    == "Failed to parse video information"
E_Auth     == "YouTube requires authentication"
E_Download == "Download failed"
E_Formats  == "Failed to list formats"

NoBody == [kind |-> "none", error |-> "", details |-> <<>>, info |-> NoInfo, text |-> <<>>]

ErrBody(e, d) == [NoBody EXCEPT !.kind = "error", !.error = e, !.details = d]

\* the object literal { title: info.title, duration: info.duration, ... }
InfoBodySwapped(obj) ==
    [NoBody EXCEPT !.kind = "info",
        !.info = [title |-> obj.title, duration |-> obj.duration,
                  thumbnail |-> obj.thumbnail, uploader |-> obj.title,
                  view_count |-> obj.view_count, formats |-> obj.formats]]

InfoBody(obj) ==
    [NoBody EXCEPT !.kind = "info",
        !.info = [title |-> obj.title, duration |-> obj.duration,
                  thumbnail |-> obj.thumbnail, uploader |-> obj.uploader,
                  view_count |-> obj.view_count, formats |-> obj.formats]]

FormatsBody(t) == [NoBody EXCEPT !.kind = "formats", !.text = t]

FreshRes ==
    [headersSent |-> FALSE, ended |-> FALSE, status |-> 0, body |-> NoBody,
     ctype |-> "", filename |-> <<>>, cache |-> "", bytes |-> <<>>, sends |-> 0]

\* res.status(code).json(body), and res.json(body) with code 200; sends counts
\* the times a status line was written for the request
SendJson(q, code, body) ==
    [q EXCEPT !.res = [@ EXCEPT !.headersSent = TRUE, !.ended = TRUE,
                                !.status = code, !.body = body,
                                !.sends = @ + 1]]

\* the handler without its calls of res.setHeader
SetNoHeaders(q, name, cache) == q

\* res.setHeader('Content-Type', 'video/mp4') and Content-Disposition
SetDownloadHeaders(q, name, cache) ==
    [q EXCEPT !.res = [@ EXCEPT !.ctype = "video/mp4", !.filename = name \o S_mp4,
                                !.cache = cache]]

\* one chunk through ytDlp.stdout.pipe(res): the first write sends the headers;
\* once the response has finished the pipe is gone
PipeWrite(q, chunk) ==
    IF q.res.ended THEN q
    ELSE [q EXCEPT !.res = [@ EXCEPT !.headersSent = TRUE,
                                     !.status = IF @ = 0 THEN 200 ELSE @,
                                     !.bytes = @ \o chunk,
                                     !.sends = IF q.res.headersSent THEN @ ELSE @ + 1]]

\* res.end()
EndRes(q) ==
    IF q.res.ended THEN q
    ELSE [q EXCEPT !.res = [@ EXCEPT !.headersSent = TRUE, !.ended = TRUE,
                                     !.status = IF @ = 0 THEN 200 ELSE @,
                                     !.sends = IF q.res.headersSent THEN @ ELSE @ + 1]]

(***************************************************************************)
(* State.                                                                  *)
(***************************************************************************)
P_web      == "youtube:player_client=web"
P_android  == "youtube:player_client=android,web"
P_title    == "--get-title"
P_download == "-f -o - web"
P_plain    == "-f -o -"
P_formats  == "--list-formats"

NoProc ==
    [st |-> "none", arg |-> "undefined", profile |-> "", fmt |-> "", script |-> "",
     nout |-> 0, nerr |-> 0, eof |-> FALSE]

\* spawn('yt-dlp', [... , url]) with what the child is going to do
Spawn(arg, profile, fmt, s) ==
    [st |-> IF Sc(s).launch THEN "running" ELSE "spawnfail", arg |-> arg,
     profile |-> profile, fmt |-> fmt, script |-> s, nout |-> 0, nerr |-> 0,
     eof |-> FALSE]

\* the chunks a process has still to deliver, and its exit code
POut(p) == SubSeq(Sc(p.script).out, p.nout + 1, Len(Sc(p.script).out))
PErr(p) == SubSeq(Sc(p.script).err, p.nerr + 1, Len(Sc(p.script).err))
PCode(p) == Sc(p.script).code

\* ytDlp.kill(): SIGTERM to a child that is running; nothing otherwise
Kill(p) == IF p.st = "running" THEN [p EXCEPT !.st = "killed"] ELSE p

\* 'close' of a child ended by the signal carries code null
KilledCode == 0 - 1

Slots == {"info", "fallback", "title", "stream", "estream", "formats"}

NoProcs == [info |-> NoProc, fallback |-> NoProc, title |-> NoProc, stream |-> NoProc,
            estream |-> NoProc, formats |-> NoProc]

IdleReq ==
    [st |-> "idle", ep |-> "none", url |-> "undefined", quality |-> "",
     formatSelector |-> "", videoInfo |-> <<>>, errorOutput |-> <<>>,
     fallbackInfo |-> <<>>, fallbackError |-> <<>>, title |-> <<>>, output |-> <<>>,
     res |-> FreshRes, spawned |-> <<>>, closed |-> FALSE, closedWhile |-> {}]

ServerUp == [up |-> TRUE, exitCode |-> 0, signalled |-> FALSE, error |-> ""]

\* an uncaught exception: Node prints it and exits with code 1
Crashed == [up |-> FALSE, exitCode |-> 1, signalled |-> FALSE, error |-> "Unhandled 'error' event"]

\* the same for a header or status written after the head of the response
HeadersSentCrash == [Crashed EXCEPT !.error = "ERR_HTTP_HEADERS_SENT"]

\* a spawn failure is reported on the next tick, before any other event
PendingTick == \E r \in Requests, s \in Slots : proc[r][s].st = "spawnfail"

Ready == server.up /\ ~PendingTick

(***************************************************************************)
(* Inputs of the gateway.                                                  *)
(***************************************************************************)
S_videoUrl == S_https \o S_youtu_be \o <<"d","Q","w","4">>
S_notAUrl  == <<"n","o","t","-","a","-","u","r","l">>

\* the url of a request, by name: absent, '', 'not-a-url', {}, the URL of a
\* video, and [that URL] (JSON body, or ?url[]=... in a query string)
UrlValue(name) ==
    CASE name = "empty"     -> JsString(<<>>)
      [] name = "not-a-url" -> JsString(S_notAUrl)
      [] name = "object"    -> JsObject
      [] name = "video"     -> JsString(S_videoUrl)
      [] name = "array"     -> JsArray(<<S_videoUrl>>)
      [] OTHER              -> JsUndefined

\* the bodies of POST /api/video-info and POST /api/formats, and the queries
\* of GET /api/download (url and quality)
InfoInputs == {"undefined", "not-a-url", "video"}

FormatsInputs == {"empty", "object", "video", "array"}

DownloadInputs ==
    { [url |-> "video", quality |-> "720p"],
      [url |-> "not-a-url", quality |-> "best"],
      [url |-> "undefined", quality |-> "audio"] }

(***************************************************************************)
(* POST /api/video-info                                                    *)
(***************************************************************************)
PostVideoInfo(r, url) ==
    /\ Ready
    /\ req[r].st = "idle"
    /\ LET q == [req[r] EXCEPT !.st = "handled", !.ep = "info", !.url = url]
       IN  IF GateRejects(UrlValue(url))
           THEN /\ req' = [req EXCEPT ![r] = SendJson(q, 400, ErrBody(E_Invalid, <<>>))]
                /\ UNCHANGED proc
           ELSE \E s \in InfoScripts \cup {LaunchFailure} :
                /\ req' = [req EXCEPT ![r] = [q EXCEPT !.spawned = Append(@, "info")]]
                /\ proc' = [proc EXCEPT ![r].info = Spawn(url, P_web, "", s)]
    /\ UNCHANGED <<server, harnessVars, janitorVars, door, app>>

\* ytDlp.stdout.on('data'): videoInfo += data
InfoStdoutData(r) ==
    /\ Ready
    /\ proc[r].info.st = "running"
    /\ POut(proc[r].info) # <<>>
    /\ req' = [req EXCEPT ![r].videoInfo = @ \o Head(POut(proc[r].info))]
    /\ proc' = [proc EXCEPT ![r].info.nout = @ + 1]
    /\ UNCHANGED <<server, harnessVars, janitorVars, door, app>>

\* ytDlp.stderr.on('data'): errorOutput += data
InfoStderrData(r) ==
    /\ Ready
    /\ proc[r].info.st = "running"
    /\ PErr(proc[r].info) # <<>>
    /\ req' = [req EXCEPT ![r].errorOutput = @ \o Head(PErr(proc[r].info))]
    /\ proc' = [proc EXCEPT ![r].info.nerr = @ + 1]
    /\ UNCHANGED <<server, harnessVars, janitorVars, door, app>>

\* ytDlp.on('error')
InfoOnError(q) ==
    IF ~q.res.headersSent
    THEN SendJson(q, 500, ErrBody(E_Exec, <<"spawn", "yt-dlp", "ENOENT">>))
    ELSE q

FetchDetailsDropped(q) == <<"Unknown", "yt-dlp", "error">>

\* details: errorOutput || 'Unknown yt-dlp error'
FetchDetails(q) ==
    IF q.errorOutput = <<>> THEN <<"Unknown", "yt-dlp", "error">> ELSE q.errorOutput

\* the retry condition of ytDlp.on('close')
WantsFallback(q, code) == code # 0 /\ Includes(q.errorOutput, Signature)

\* the same handler without its tests of res.headersSent
InfoOnCloseUnguarded(q, code) ==
    IF code # 0
    THEN SendJson(q, 400, ErrBody(E_Fetch, FetchDetails(q)))
    ELSE LET info == JSONparse(q.videoInfo)
         IN  IF info.kind = "error"
             THEN SendJson(q, 500, ErrBody(E_Parse, <<"SyntaxError">>))
             ELSE IF info.kind = "null"
             THEN SendJson(q, 500, ErrBody(E_Parse, <<"TypeError">>))
             ELSE SendJson(q, 200, InfoBody(info.obj))

\* ytDlp.on('close') when no fallback is started: the record after the handler
InfoOnCloseNoRetry(q, code) ==
    IF code # 0
    THEN IF ~q.res.headersSent
         THEN SendJson(q, 400, ErrBody(E_Fetch, FetchDetails(q)))
         ELSE q
    ELSE LET info == JSONparse(q.videoInfo)
         IN  IF info.kind = "error"
             THEN IF ~q.res.headersSent
                  THEN SendJson(q, 500, ErrBody(E_Parse, <<"SyntaxError">>))
                  ELSE q
             ELSE IF info.kind = "null"
             THEN \* info.title throws a TypeError inside the try block
                  IF ~q.res.headersSent
                  THEN SendJson(q, 500, ErrBody(E_Parse, <<"TypeError">>))
                  ELSE q
             ELSE IF ~q.res.headersSent
                  THEN SendJson(q, 200, InfoBody(info.obj))
                  ELSE q

\* ytDlp.on('close', code), on the record q and the processes pr
InfoOnClose(r, q, code, pr) ==
    IF WantsFallback(q, code)
    THEN \E s \in FallbackScripts \cup {LaunchFailure} :
         /\ req' = [req EXCEPT ![r] = [q EXCEPT !.spawned = Append(@, "fallback")]]
         /\ proc' = [pr EXCEPT ![r].fallback = Spawn(q.url, P_android, "", s)]
    ELSE /\ req' = [req EXCEPT ![r] = InfoOnCloseNoRetry(q, code)]
         /\ proc' = pr

InfoClose(r) ==
    /\ Ready
    /\ proc[r].info.st = "running"
    /\ POut(proc[r].info) = <<>>
    /\ PErr(proc[r].info) = <<>>
    /\ ~Hangs(proc[r].info.script)
    /\ InfoOnClose(r, req[r], PCode(proc[r].info), [proc EXCEPT ![r].info.st = "closed"])
    /\ UNCHANGED <<server, harnessVars, janitorVars, door, app>>

\* the process could not be launched: 'error', then 'close' with the negated
\* errno, in the same tick
InfoSpawnFailed(r) ==
    /\ server.up
    /\ proc[r].info.st = "spawnfail"
    /\ InfoOnClose(r, InfoOnError(req[r]), PCode(proc[r].info),
                   [proc EXCEPT ![r].info.st = "closed"])
    /\ UNCHANGED <<server, harnessVars, janitorVars, door, app>>

\* fallbackProcess.stdout.on('data'): fallbackInfo += data
FallbackStdoutData(r) ==
    /\ Ready
    /\ proc[r].fallback.st = "running"
    /\ POut(proc[r].fallback) # <<>>
    /\ req' = [req EXCEPT ![r].fallbackInfo = @ \o Head(POut(proc[r].fallback))]
    /\ proc' = [proc EXCEPT ![r].fallback.nout = @ + 1]
    /\ UNCHANGED <<server, harnessVars, janitorVars, door, app>>

\* fallbackProcess.stderr.on('data'): fallbackError += data
FallbackStderrData(r) ==
    /\ Ready
    /\ proc[r].fallback.st = "running"
    /\ PErr(proc[r].fallback) # <<>>
    /\ req' = [req EXCEPT ![r].fallbackError = @ \o Head(PErr(proc[r].fallback))]
    /\ proc' = [proc EXCEPT ![r].fallback.nerr = @ + 1]
    /\ UNCHANGED <<server, harnessVars, janitorVars, door, app>>

FallbackAnswerFirstBuffer(q, code) ==
    IF code = 0
    THEN LET info == JSONparse(q.videoInfo)
         IN  IF info.kind = "error" THEN [status |-> 500, body |-> ErrBody(E_Parse, <<"SyntaxError">>)]
             ELSE IF info.kind = "null" THEN [status |-> 500, body |-> ErrBody(E_Parse, <<"TypeError">>)]
             ELSE [status |-> 200, body |-> InfoBody(info.obj)]
    ELSE [status |-> 400,
          body |-> ErrBody(E_Auth, <<"Please", "try", "a", "different", "video">>)]

\* the same, were the retry's output appended to the first buffer
FallbackAnswerMixed(q, code) ==
    IF code = 0
    THEN LET info == JSONparse(q.videoInfo \o q.fallbackInfo)
         IN  IF info.kind = "error" THEN [status |-> 500, body |-> ErrBody(E_Parse, <<"SyntaxError">>)]
             ELSE IF info.kind = "null" THEN [status |-> 500, body |-> ErrBody(E_Parse, <<"TypeError">>)]
             ELSE [status |-> 200, body |-> InfoBody(info.obj)]
    ELSE [status |-> 400,
          body |-> ErrBody(E_Auth, <<"Please", "try", "a", "different", "video">>)]

\* what fallbackProcess.on('close') answers (it does not look at headersSent)
FallbackAnswer(q, code) ==
    IF code = 0
    THEN LET info == JSONparse(q.fallbackInfo)
         IN  IF info.kind = "error" THEN [status |-> 500, body |-> ErrBody(E_Parse, <<"SyntaxError">>)]
             ELSE IF info.kind = "null" THEN [status |-> 500, body |-> ErrBody(E_Parse, <<"TypeError">>)]
             ELSE [status |-> 200, body |-> InfoBody(info.obj)]
    ELSE [status |-> 400,
          body |-> ErrBody(E_Auth, <<"Please", "try", "a", "different", "video">>)]

\* fallbackProcess.on('close', fallbackCode)
FallbackClose(r) ==
    /\ Ready
    /\ proc[r].fallback.st = "running"
    /\ POut(proc[r].fallback) = <<>>
    /\ PErr(proc[r].fallback) = <<>>
    /\ proc' = [proc EXCEPT ![r].fallback.st = "closed"]
    /\ LET a == FallbackAnswer(req[r], PCode(proc[r].fallback))
       IN  IF req[r].res.headersSent
           THEN \* res.json throws ERR_HTTP_HEADERS_SENT, in the catch block too
                /\ server' = HeadersSentCrash
                /\ UNCHANGED req
           ELSE /\ req' = [req EXCEPT ![r] = SendJson(req[r], a.status, a.body)]
                /\ UNCHANGED server
    /\ UNCHANGED <<harnessVars, janitorVars, door, app>>

\* fallbackProcess has no 'error' listener: the event is thrown
FallbackSpawnFailed(r) ==
    /\ server.up
    /\ proc[r].fallback.st = "spawnfail"
    /\ proc' = [proc EXCEPT ![r].fallback.st = "errored"]
    /\ server' = Crashed
    /\ UNCHANGED <<req, harnessVars, janitorVars, door, app>>

(***************************************************************************)
(* GET /api/download                                                       *)
(***************************************************************************)
GetDownload(r, url, quality) ==
    /\ Ready
    /\ req[r].st = "idle"
    /\ LET q == [req[r] EXCEPT !.st = "handled", !.ep = "download", !.url = url,
                               !.quality = QualityParam(quality)]
       IN  IF GateRejects(UrlValue(url))
           THEN /\ req' = [req EXCEPT ![r] = SendJson(q, 400, ErrBody(E_Invalid, <<>>))]
                /\ UNCHANGED proc
           ELSE \E s \in TitleScripts \cup {LaunchFailure} :
                /\ req' = [req EXCEPT ![r] =
                              [q EXCEPT !.formatSelector = FormatSelector(q.quality),
                                        !.title = S_default,
                                        !.spawned = Append(@, "title")]]
                /\ proc' = [proc EXCEPT ![r].title = Spawn(url, P_title, "", s)]
    /\ UNCHANGED <<server, harnessVars, janitorVars, door, app>>

\* titleProcess.stdout.on('data'): title = sanitized chunk
TitleStdoutData(r) ==
    /\ Ready
    /\ proc[r].title.st = "running"
    /\ POut(proc[r].title) # <<>>
    /\ req' = [req EXCEPT ![r].title = Sanitize(Head(POut(proc[r].title)))]
    /\ proc' = [proc EXCEPT ![r].title.nout = @ + 1]
    /\ UNCHANGED <<server, harnessVars, janitorVars, door, app>>

\* titleProcess.on('close'), on the record q and the processes pr
TitleOnClose(r, q, pr) ==
    IF q.res.headersSent
    THEN \* res.setHeader throws ERR_HTTP_HEADERS_SENT in the event handler
         /\ server' = HeadersSentCrash
         /\ req' = [req EXCEPT ![r] = q]
         /\ proc' = pr
    ELSE \E s \in StreamScripts \cup {LaunchFailure} :
         /\ req' = [req EXCEPT ![r] =
                       [SetDownloadHeaders(q, q.title, "no-cache")
                           EXCEPT !.spawned = Append(@, "stream")]]
         /\ proc' = [pr EXCEPT ![r].stream =
                        Spawn(q.url, P_download, q.formatSelector, s)]
         /\ UNCHANGED server

TitleClose(r) ==
    /\ Ready
    /\ proc[r].title.st = "running"
    /\ POut(proc[r].title) = <<>>
    /\ TitleOnClose(r, req[r], [proc EXCEPT ![r].title.st = "closed"])
    /\ UNCHANGED <<harnessVars, janitorVars, door, app>>

\* the title process could not be launched: titleProcess.on('error') starts a
\* download under the default name, and 'close' follows in the same tick
TitleSpawnFailed(r) ==
    /\ server.up
    /\ proc[r].title.st = "spawnfail"
    /\ IF ~req[r].res.headersSent
       THEN \E s \in StreamScripts \cup {LaunchFailure} :
            TitleOnClose(r,
                [SetDownloadHeaders(req[r], S_default, req[r].res.cache)
                    EXCEPT !.spawned = Append(@, "estream")],
                [proc EXCEPT ![r].title.st = "closed",
                             ![r].estream =
                                 Spawn(req[r].url, P_plain, req[r].formatSelector, s)])
       ELSE TitleOnClose(r, req[r], [proc EXCEPT ![r].title.st = "closed"])
    /\ UNCHANGED <<harnessVars, janitorVars, door, app>>

StreamSlots == {"stream", "estream"}

\* ytDlp.stdout.pipe(res): a chunk of the download
StreamData(r, slot) ==
    /\ Ready
    /\ proc[r][slot].st = "running"
    /\ POut(proc[r][slot]) # <<>>
    /\ req' = [req EXCEPT ![r] = PipeWrite(req[r], Head(POut(proc[r][slot])))]
    /\ proc' = [proc EXCEPT ![r][slot].nout = @ + 1]
    /\ UNCHANGED <<server, harnessVars, janitorVars, door, app>>

\* ytDlp.stdout ends: pipe() ends the response
StreamEnd(r, slot) ==
    /\ Ready
    /\ proc[r][slot].st = "running"
    /\ POut(proc[r][slot]) = <<>>
    /\ ~proc[r][slot].eof
    /\ req' = [req EXCEPT ![r] = EndRes(req[r])]
    /\ proc' = [proc EXCEPT ![r][slot].eof = TRUE]
    /\ UNCHANGED <<server, harnessVars, janitorVars, door, app>>

\* ytDlp.on('close', code) of the download started by titleProcess.on('close')
StreamOnClose(q, code) ==
    EndRes(IF code # 0 /\ ~q.res.headersSent
           THEN SendJson(q, 500, ErrBody(E_Download, <<>>))
           ELSE q)

StreamClose(r) ==
    /\ Ready
    /\ \/ /\ proc[r].stream.st = "running"
          /\ proc[r].stream.eof
          /\ req' = [req EXCEPT ![r] = StreamOnClose(req[r], PCode(proc[r].stream))]
          /\ proc' = [proc EXCEPT ![r].stream.st = "closed"]
       \/ \* ended by kill(): stdout ends, which ends the response, then 'close'
          /\ proc[r].stream.st = "killed"
          /\ req' = [req EXCEPT ![r] =
                        StreamOnClose(IF proc[r].stream.eof THEN req[r] ELSE EndRes(req[r]),
                                      KilledCode)]
          /\ proc' = [proc EXCEPT ![r].stream.st = "terminated", ![r].stream.eof = TRUE]
    /\ UNCHANGED <<server, harnessVars, janitorVars, door, app>>

\* ytDlp.on('close') of the download started by titleProcess.on('error')
EStreamClose(r) ==
    /\ Ready
    /\ \/ /\ proc[r].estream.st = "running"
          /\ proc[r].estream.eof
          /\ proc' = [proc EXCEPT ![r].estream.st = "closed"]
       \/ /\ proc[r].estream.st = "killed"
          /\ proc' = [proc EXCEPT ![r].estream.st = "terminated", ![r].estream.eof = TRUE]
    /\ req' = [req EXCEPT ![r] = EndRes(req[r])]
    /\ UNCHANGED <<server, harnessVars, janitorVars, door, app>>

\* neither download process has an 'error' listener: the event is thrown
StreamSpawnFailed(r, slot) ==
    /\ server.up
    /\ proc[r][slot].st = "spawnfail"
    /\ proc' = [proc EXCEPT ![r][slot].st = "errored"]
    /\ server' = Crashed
    /\ UNCHANGED <<req, harnessVars, janitorVars, door, app>>

\* the req.on('close') listeners of request r: registered together with the
\* download process they kill, and nowhere else
ReqOnCloseNone(pr, r) == pr

ReqOnClose(pr, r) ==
    [pr EXCEPT ![r].stream = IF @.st # "none" THEN Kill(@) ELSE @,
               ![r].estream = IF @.st # "none" THEN Kill(@) ELSE @]

\* the client closes the connection before the response has ended: req emits
\* 'close'; closedWhile remembers which children were running at that moment
Disconnect(r) ==
    /\ Ready
    /\ req[r].st = "handled"
    /\ ~req[r].closed
    /\ ~req[r].res.ended
    /\ req' = [req EXCEPT ![r].closed = TRUE,
                          ![r].closedWhile = {s \in Slots : proc[r][s].st = "running"}]
    /\ proc' = ReqOnClose(proc, r)
    /\ UNCHANGED <<server, harnessVars, janitorVars, door, app>>

(***************************************************************************)
(* POST /api/formats                                                       *)
(***************************************************************************)
PostFormats(r, url) ==
    /\ Ready
    /\ req[r].st = "idle"
    /\ LET q == [req[r] EXCEPT !.st = "handled", !.ep = "formats", !.url = url]
       IN  IF GateRejects(UrlValue(url))
           THEN /\ req' = [req EXCEPT ![r] = SendJson(q, 400, ErrBody(E_Invalid, <<>>))]
                /\ UNCHANGED proc
           ELSE \E s \in FormatsScripts \cup {LaunchFailure} :
                /\ req' = [req EXCEPT ![r] = [q EXCEPT !.spawned = Append(@, "formats")]]
                /\ proc' = [proc EXCEPT ![r].formats = Spawn(url, P_formats, "", s)]
    /\ UNCHANGED <<server, harnessVars, janitorVars, door, app>>

\* ytDlp.stdout.on('data'): output += data
FormatsStdoutData(r) ==
    /\ Ready
    /\ proc[r].formats.st = "running"
    /\ POut(proc[r].formats) # <<>>
    /\ req' = [req EXCEPT ![r].output = @ \o Head(POut(proc[r].formats))]
    /\ proc' = [proc EXCEPT ![r].formats.nout = @ + 1]
    /\ UNCHANGED <<server, harnessVars, janitorVars, door, app>>

\* ytDlp.stderr.on('data'): errorOutput += data
FormatsStderrData(r) ==
    /\ Ready
    /\ proc[r].formats.st = "running"
    /\ PErr(proc[r].formats) # <<>>
    /\ req' = [req EXCEPT ![r].errorOutput = @ \o Head(PErr(proc[r].formats))]
    /\ proc' = [proc EXCEPT ![r].formats.nerr = @ + 1]
    /\ UNCHANGED <<server, harnessVars, janitorVars, door, app>>

\* ytDlp.on('close', code)
FormatsClose(r) ==
    /\ Ready
    /\ proc[r].formats.st = "running"
    /\ POut(proc[r].formats) = <<>>
    /\ PErr(proc[r].formats) = <<>>
    /\ proc' = [proc EXCEPT ![r].formats.st = "closed"]
    /\ IF req[r].res.headersSent
       THEN /\ server' = HeadersSentCrash
            /\ UNCHANGED req
       ELSE /\ req' = [req EXCEPT ![r] =
                          IF PCode(proc[r].formats) # 0
                          THEN SendJson(req[r], 400, ErrBody(E_Formats, req[r].errorOutput))
                          ELSE SendJson(req[r], 200, FormatsBody(req[r].output))]
            /\ UNCHANGED server
    /\ UNCHANGED <<harnessVars, janitorVars, door, app>>

\* no 'error' listener: the event is thrown
FormatsSpawnFailed(r) ==
    /\ server.up
    /\ proc[r].formats.st = "spawnfail"
    /\ proc' = [proc EXCEPT ![r].formats.st = "errored"]
    /\ server' = Crashed
    /\ UNCHANGED <<req, harnessVars, janitorVars, door, app>>

(***************************************************************************)
(* process.on('SIGTERM' / 'SIGINT'): process.exit(0)                       *)
(***************************************************************************)
Signal ==
    /\ Ready
    /\ server' = [ServerUp EXCEPT !.up = FALSE, !.signalled = TRUE]
    /\ UNCHANGED <<req, proc, harnessVars, janitorVars, door, app>>

(***************************************************************************)
(* Temporary file janitor: cleanupOldFiles.                                *)
(*   const files = await fs.readdir(TEMP_DIR); const now = Date.now();     *)
(*   for (const file of files) { stat; if (now - mtime > 1h) unlink }      *)
(* all inside one try block whose catch logs the error.                    *)
(***************************************************************************)
\* 60 * 60 * 1000
RetentionMs == 3600000

NEntries == 3

Entries == 1..NEntries

\* Date.now() when the sweep runs
SweepTime == 2 * RetentionMs

\* modification times: one millisecond more than an hour ago, exactly an hour
\* ago, and a millisecond ago
MTimes == {SweepTime - RetentionMs - 1, SweepTime - RetentionMs, SweepTime - 1}

\* a regular file, a subdirectory (fs.unlink rejects with EISDIR/EPERM) and a
\* dangling symbolic link (fs.stat rejects with ENOENT)
Kinds == {"file", "dir", "brokenlink"}

Absent == [present |-> FALSE, mtime |-> 0, kind |-> "file"]

EntryStates == {Absent} \cup [present : {TRUE}, mtime : MTimes, kind : Kinds]

EmptyDir == [f \in Entries |-> Absent]

IdleSweep ==
    [pc |-> "idle", files |-> <<>>, i |-> 0, now |-> 0, start |-> EmptyDir,
     logged |-> 0, failedAt |-> 0, unlinked |-> {}]

\* fs.readdir: the names of the entries, in directory order (the entries are
\* numbered in that order)
RECURSIVE ReadDir(_, _)
ReadDir(dir, n) ==
    IF n = 0 THEN <<>>
    ELSE ReadDir(dir, n - 1) \o (IF dir[n].present THEN <<n>> ELSE <<>>)

\* the next iteration of the for loop, or the end of the function
NextEntry(sw) ==
    IF sw.i < Len(sw.files) THEN [sw EXCEPT !.pc = "stat", !.i = @ + 1]
    ELSE [sw EXCEPT !.pc = "done"]

\* catch (error) { console.error(...) }: the function returns
CatchAndLog(sw) == [sw EXCEPT !.pc = "done", !.logged = @ + 1, !.failedAt = sw.files[sw.i]]

\* now - stats.mtime.getTime() > 60 * 60 * 1000
IsOld(now, mtime) == now - mtime > RetentionMs

\* the activation after readdir and Date.now()
Started(sw, dir, now) ==
    LET files == ReadDir(dir, NEntries)
    IN  [sw EXCEPT !.pc = IF files = <<>> THEN "done" ELSE "stat",
                   !.files = files, !.i = 1, !.now = now, !.start = dir]

\* cleanupOldFiles is called by the timer: readdir and Date.now()
SweepStart ==
    /\ sweep.pc = "idle"
    /\ sweep' = Started(sweep, tempDir, clock)
    /\ UNCHANGED <<gatewayVars, harnessVars, door, tempDir, clock, timer, app>>

\* await fs.stat(filePath), and the test of the age
SweepStat ==
    /\ sweep.pc = "stat"
    /\ LET e == tempDir[sweep.files[sweep.i]]
       IN  sweep' = IF ~e.present \/ e.kind = "brokenlink" THEN CatchAndLog(sweep)
                    ELSE IF IsOld(sweep.now, e.mtime) THEN [sweep EXCEPT !.pc = "unlink"]
                    ELSE NextEntry(sweep)
    /\ UNCHANGED <<gatewayVars, harnessVars, door, tempDir, clock, timer, app>>

\* await fs.unlink(filePath)
SweepUnlink ==
    /\ sweep.pc = "unlink"
    /\ LET f == sweep.files[sweep.i]
       IN  IF ~tempDir[f].present \/ tempDir[f].kind = "dir"
           THEN /\ sweep' = CatchAndLog(sweep)
                /\ UNCHANGED tempDir
           ELSE /\ tempDir' = [tempDir EXCEPT ![f] = Absent]
                /\ sweep' = NextEntry([sweep EXCEPT !.unlinked =
                                          @ \cup {[entry |-> f, mtime |-> tempDir[f].mtime]}])
    /\ UNCHANGED <<gatewayVars, harnessVars, door, clock, timer, app>>

\* setInterval(cleanupOldFiles, 60 * 60 * 1000)
IntervalMs == 3600000

\* the step by which the clock of the model advances: half an hour
TickMs == RetentionMs \div 2

MaxTicks == 5

\* time passes (a sweep takes far less than one step)
Tick ==
    /\ sweep.pc = "idle"
    /\ clock < timer
    /\ clock < MaxTicks * TickMs
    /\ clock' = clock + TickMs
    /\ UNCHANGED <<gatewayVars, harnessVars, door, tempDir, sweep, timer, app>>

\* something writes the entry f of the scratch directory: it exists, with the
\* current time as its modification time
WriteFile(f) ==
    /\ tempDir[f] # [present |-> TRUE, mtime |-> clock, kind |-> "file"]
    /\ tempDir' = [tempDir EXCEPT ![f] = [present |-> TRUE, mtime |-> clock, kind |-> "file"]]
    /\ UNCHANGED <<gatewayVars, harnessVars, door, sweep, clock, timer, app>>

\* the interval elapses: cleanupOldFiles is called
TimerFires ==
    /\ sweep.pc = "idle"
    /\ clock >= timer
    /\ sweep' = Started(sweep, tempDir, clock)
    /\ timer' = timer + IntervalMs
    /\ UNCHANGED <<gatewayVars, harnessVars, door, tempDir, clock, app>>

\* the async function has returned; the next call starts afresh
SweepReturn ==
    /\ sweep.pc = "done"
    /\ sweep' = IdleSweep
    /\ UNCHANGED <<gatewayVars, harnessVars, door, tempDir, clock, timer, app>>

(***************************************************************************)
(* The middleware in front of the routes: app.use('/api/', limiter) and    *)
(* the routes that take no extractor.  express-rate-limit keeps, per key   *)
(* (the client address, req.ip), a hit count and the time its window ends; *)
(* the count starts again when the window has ended.                       *)
(***************************************************************************)
\* windowMs: 15 * 60 * 1000
WindowMs == 900000

\* max: 100
Max == 100

\* message of the limiter
LimitMessage == "Too many requests from this IP, please try again later."

\* the step by which the clock advances here: half a window
StepMs == WindowMs \div 2

MaxSteps == 2

\* hits beyond the threshold the first client runs up in one window
MaxOver == 1

\* hits the second client runs up in one window, and requests for the root
\* route in one run
MaxOther == 1

MaxRoot == 1

Clients == {"a", "b"}

\* two of the routes registered without an extractor: app.get('/') and
\* app.get('/api/health')
DoorPaths == {"/", "/api/health"}

\* app.use('/api/', limiter): the paths the limiter is mounted on
UnderApi(path) == path = "/api/health"

\* the earlier mount of the limiter, were it on every path
UnderAny(path) == TRUE

NoReply == [client |-> "", path |-> "", status |-> 0, body |-> "", handler |-> FALSE]

FreshDoor ==
    [store   |-> [c \in Clients |-> [hits |-> 0, resetTime |-> 0]],
     reached |-> [c \in Clients |-> [prev |-> 0, cur |-> 0]],
     roots   |-> 0,
     last    |-> NoReply]

\* the store's increment(key): a new window when none is open
Increment(entry, now) ==
    IF entry.hits = 0 \/ now >= entry.resetTime
    THEN [hits |-> 1, resetTime |-> now + WindowMs]
    ELSE [entry EXCEPT !.hits = @ + 1]

\* the body a route sends
RouteBody(path) ==
    CASE path = "/"           -> "YouTube Downloader Backend is running!"
      [] path = "/api/health" -> "OK"

\* one request of client c for path passes the limiter (when mounted on the
\* path) and, unless rejected there, the route handler
DoorRequest(c, path) ==
    /\ UnderApi(path) =>
           Increment(door.store[c], clock).hits <= (IF c = "a" THEN Max + MaxOver ELSE MaxOther)
    /\ path = "/" => door.roots < MaxRoot
    /\ LET counted == UnderApi(path)
           entry == IF counted THEN Increment(door.store[c], clock) ELSE door.store[c]
           rejected == counted /\ entry.hits > Max
       IN  door' = [door EXCEPT
               !.store[c] = entry,
               !.roots = IF path = "/" THEN @ + 1 ELSE @,
               !.reached[c].cur = IF rejected THEN @ ELSE @ + 1,
               !.last = IF rejected
                        THEN [client |-> c, path |-> path, status |-> 429,
                              body |-> LimitMessage, handler |-> FALSE]
                        ELSE [client |-> c, path |-> path, status |-> 200,
                              body |-> RouteBody(path), handler |-> TRUE]]
    /\ UNCHANGED <<gatewayVars, harnessVars, janitorVars, app>>

\* half a window passes
DoorStep ==
    /\ clock < MaxSteps * StepMs
    /\ clock' = clock + StepMs
    /\ door' = [door EXCEPT
            !.reached = [c \in Clients |-> [prev |-> door.reached[c].cur, cur |-> 0]]]
    /\ UNCHANGED <<gatewayVars, harnessVars, tempDir, sweep, timer, app>>

(***************************************************************************)
(* The presentation client (function App): the state of the component, the *)
(* metadata and download requests it has in flight, and the timers it has  *)
(* set.  A handler sees the state of the render in which its event occurs; *)
(* the continuation of an async handler runs when its response arrives.    *)
(***************************************************************************)
MaxFetches == 3

MaxDownloads == 2

\* a second address the user can type
S_otherUrl == S_https \o S_youtu_be \o <<"j","N","Q","X">>

\* what the URL field can hold
FieldTexts == {<<>>, S_videoUrl, <<" ">> \o S_videoUrl, S_otherUrl}

\* the title the gateway reports for a URL
TitleOf(u) == IF u = S_videoUrl THEN "Never Gonna Give You Up" ELSE "Me at the zoo"

NoVideoInfo == [present |-> FALSE, title |-> "", for |-> <<>>, from |-> 0]

\* useState: url '', videoInfo null, quality 'best', downloadState all off;
\* fetches and downloads are the requests in flight, issued and started count
\* them, latest is what became of the metadata request issued last
FreshApp ==
    [url |-> <<>>, videoInfo |-> NoVideoInfo, quality |-> "best",
     downloadState |-> [isLoading |-> FALSE, isDownloading |-> FALSE,
                        error |-> "", success |-> FALSE],
     fetches |-> {}, downloads |-> {}, timers |-> 0,
     issued |-> 0, started |-> 0, latest |-> "none"]

(***************************************************************************)
(* Idle values of the parts of the state a specification does not use.     *)
(***************************************************************************)
NoParts ==
    [prefix |-> <<>>, scheme |-> <<>>, www |-> <<>>, host |-> <<>>, path |-> <<>>,
     id |-> <<>>, tail |-> <<>>]

GatewayIdle ==
    /\ server = ServerUp
    /\ req = [r \in Requests |-> IdleReq]
    /\ proc = [r \in Requests |-> NoProcs]

ValidatorIdle ==
    /\ vParts = NoParts
    /\ vUrl = <<>>
    /\ vResult = "none"

FunctionIdle ==
    /\ fArg = <<>>
    /\ fRes = <<>>

JanitorIdle ==
    /\ tempDir = EmptyDir
    /\ sweep = IdleSweep
    /\ clock = SweepTime
    /\ timer = SweepTime

DoorIdle == door = FreshDoor

AppIdle == app = FreshApp

(***************************************************************************)
(* The gateway.                                                            *)
(***************************************************************************)
Init ==
    /\ GatewayIdle
    /\ ValidatorIdle
    /\ FunctionIdle
    /\ JanitorIdle
    /\ DoorIdle
    /\ AppIdle

Next ==
    \/ \E r \in Requests, url \in InfoInputs : PostVideoInfo(r, url)
    \/ \E r \in Requests : InfoStdoutData(r)
    \/ \E r \in Requests : InfoStderrData(r)
    \/ \E r \in Requests : InfoClose(r)
    \/ \E r \in Requests : InfoSpawnFailed(r)
    \/ \E r \in Requests : FallbackStdoutData(r)
    \/ \E r \in Requests : FallbackStderrData(r)
    \/ \E r \in Requests : FallbackClose(r)
    \/ \E r \in Requests : FallbackSpawnFailed(r)
    \/ \E r \in Requests, i \in DownloadInputs : GetDownload(r, i.url, i.quality)
    \/ \E r \in Requests : TitleStdoutData(r)
    \/ \E r \in Requests : TitleClose(r)
    \/ \E r \in Requests : TitleSpawnFailed(r)
    \/ \E r \in Requests, slot \in StreamSlots : StreamData(r, slot)
    \/ \E r \in Requests, slot \in StreamSlots : StreamEnd(r, slot)
    \/ \E r \in Requests : StreamClose(r)
    \/ \E r \in Requests : EStreamClose(r)
    \/ \E r \in Requests, slot \in StreamSlots : StreamSpawnFailed(r, slot)
    \/ \E r \in Requests : Disconnect(r)
    \/ \E r \in Requests, url \in FormatsInputs : PostFormats(r, url)
    \/ \E r \in Requests : FormatsStdoutData(r)
    \/ \E r \in Requests : FormatsStderrData(r)
    \/ \E r \in Requests : FormatsClose(r)
    \/ \E r \in Requests : FormatsSpawnFailed(r)
    \/ Signal

Spec == Init /\ [][Next]_vars

(***************************************************************************)
(* isValidYouTubeUrl on its own: the candidate string is put together from  *)
(* a leading part, a scheme, "www.", a host, a path form, an identifier     *)
(* and a trailing part, and the validator is applied to the whole string.   *)
(***************************************************************************)
UrlPrefixes == { <<>>, <<"x">> }
UrlSchemes  == { <<>>, S_http, S_https, S_ftp }
UrlWww      == { <<>>, S_www }
UrlHosts    == { S_youtube, S_youtu_be, S_youtubeX, S_vimeo }
UrlPaths    == { <<>>, S_watch, S_embed, S_v, S_shorts, S_playlist }
UrlIds      == { <<>>, <<"a">>, <<"-","_","9">>, <<"d","Q","w","4","w","9","W","g","X","c","Q">> }
UrlTails    == { <<>>, <<"&","t","=","1","0","s">>, <<" ",";","r","m">> }

UrlParts ==
    [prefix : UrlPrefixes, scheme : UrlSchemes, www : UrlWww, host : UrlHosts,
     path : UrlPaths, id : UrlIds, tail : UrlTails]

BuildUrl(p) == p.prefix \o p.scheme \o p.www \o p.host \o p.path \o p.id \o p.tail

InitUrl ==
    /\ server = ServerUp
    /\ req = <<>>
    /\ proc = <<>>
    /\ vParts \in UrlParts
    /\ vUrl = BuildUrl(vParts)
    /\ vResult = "none"
    /\ FunctionIdle
    /\ JanitorIdle
    /\ DoorIdle
    /\ AppIdle

\* isValidYouTubeUrl(vUrl)
Validate ==
    /\ vResult = "none"
    /\ vResult' = IF isValidYouTubeUrl(JsString(vUrl)) THEN "true" ELSE "false"
    /\ UNCHANGED <<gatewayVars, vParts, vUrl, fArg, fRes, janitorVars, door, app>>

NextUrl == Validate

SpecUrl == InitUrl /\ [][NextUrl]_vars

(***************************************************************************)
(* The accepted URL shapes, in terms of the parts of the candidate.        *)
(***************************************************************************)
\* watch-query, embed and shorts forms on youtube.com, and the short-link form
FourShapes(p) ==
    \/ p.host = S_youtube /\ p.path \in {S_watch, S_embed, S_shorts}
    \/ p.host = S_youtu_be /\ p.path = <<>>

\* the whole string is one accepted shape followed by a non-empty identifier
WhollyAccepted(p) ==
    /\ p.prefix = <<>>
    /\ p.scheme \in {<<>>, S_http, S_https}
    /\ FourShapes(p)
    /\ p.id # <<>>
    /\ p.tail = <<>>

C3_OnlyAcceptedShapesValid ==
    vResult = "true" => WhollyAccepted(vParts)

(***************************************************************************)
(* Properties of the gateway.                                              *)
(***************************************************************************)
Handled(r) == req[r].st = "handled"

\* the spawn sites of request r that have spawned a process
SpawnedSlots(r) == {s \in Slots : proc[r][s].st # "none"}

\* the process was launched and has closed
Exited(p) == p.st = "closed" /\ Sc(p.script).launch

\* the process could not be launched, and its 'error' event has been emitted
FailedToLaunch(p) == p.st \in {"closed", "errored"} /\ ~Sc(p.script).launch

\* how often request r has spawned a process at one of the sites
SpawnCount(r, sites) == Cardinality({i \in 1..Len(req[r].spawned) : req[r].spawned[i] \in sites})

\* C1: on the three endpoints that forward a URL to the extractor, a request
\* whose url is missing or fails the validator is answered 400 and spawns no
\* process, and every process that is spawned was given the request's url, which
\* the validator accepts.
C1_GateBeforeSpawn ==
    \A r \in Requests :
        /\ (Handled(r) /\ (UrlValue(req[r].url).kind = "undefined"
                            \/ ~isValidYouTubeUrl(UrlValue(req[r].url))))
              => (req[r].res.status = 400 /\ SpawnedSlots(r) = {})
        /\ \A s \in SpawnedSlots(r) :
              /\ proc[r][s].arg = req[r].url
              /\ isValidYouTubeUrl(UrlValue(proc[r][s].arg))

C1_Witness ==
    \E r1, r2 \in Requests :
        /\ req[r1].ep = "download"
        /\ req[r1].url = "not-a-url"
        /\ req[r1].res.status = 400
        /\ req[r2].ep = "formats"
        /\ proc[r2].formats.st = "closed"
        /\ proc[r2].formats.arg = "video"

\* C4: a request whose url is not a string is answered 400 and never reaches
\* a process spawn.
C4_NonStringRejected ==
    \A r \in Requests :
        (Handled(r) /\ UrlValue(req[r].url).kind # "string")
            => (req[r].res.status = 400 /\ SpawnedSlots(r) = {})

\* the first process exited non-zero with the authentication-required text on
\* its diagnostic stream
AuthBlocked(r) ==
    /\ Exited(proc[r].info)
    /\ PCode(proc[r].info) # 0
    /\ Sc(proc[r].info.script).auth

\* the retry is started once, with the alternate client profile
RetriedOnce(r) ==
    /\ proc[r].fallback.st # "none"
    /\ proc[r].fallback.profile = P_android
    /\ proc[r].fallback.arg = req[r].url
    /\ SpawnCount(r, {"fallback"}) = 1

\* the response is 200 and carries the members of the document doc
AnsweredFrom(r, doc) ==
    /\ req[r].res.status = 200
    /\ req[r].res.body.kind = "info"
    /\ \A f \in {"title", "duration", "thumbnail", "uploader", "view_count"} :
          req[r].res.body.info[f] = doc[f]

AnsweredError(r, status, error) ==
    /\ req[r].res.status = status
    /\ req[r].res.body.kind = "error"
    /\ req[r].res.body.error = error

\* C5, as stated: after an authentication-required failure of the first
\* invocation exactly one retry is started under the alternate profile; a retry
\* that exits zero with well-formed JSON is answered 200 from its output, and a
\* retry that exits non-zero is answered 400 'YouTube requires authentication'.
C5_Original ==
    \A r \in Requests :
        /\ AuthBlocked(r) => RetriedOnce(r)
        /\ (Exited(proc[r].fallback) /\ PCode(proc[r].fallback) = 0
               /\ Sc(proc[r].fallback.script).wf # "malformed")
              => AnsweredFrom(r, Sc(proc[r].fallback.script).doc)
        /\ (Exited(proc[r].fallback) /\ PCode(proc[r].fallback) # 0)
              => AnsweredError(r, 400, E_Auth)

\* C5, amended: the same, for a retry whose output is well-formed JSON other
\* than the literal null.
C5_FallbackRetry ==
    \A r \in Requests :
        /\ AuthBlocked(r) => RetriedOnce(r)
        /\ (Exited(proc[r].fallback) /\ PCode(proc[r].fallback) = 0
               /\ Sc(proc[r].fallback.script).wf \notin {"malformed", "null"})
              => AnsweredFrom(r, Sc(proc[r].fallback.script).doc)
        /\ (Exited(proc[r].fallback) /\ PCode(proc[r].fallback) # 0)
              => AnsweredError(r, 400, E_Auth)

C5_Witness ==
    \E r1, r2 \in Requests :
        /\ AuthBlocked(r1)
        /\ Exited(proc[r1].fallback)
        /\ proc[r1].fallback.script = "docA"
        /\ req[r1].res.status = 200
        /\ AuthBlocked(r2)
        /\ Exited(proc[r2].fallback)
        /\ proc[r2].fallback.script = "auth"
        /\ req[r2].res.status = 400

\* C6, as stated: a video-info request invokes the metadata extractor at most
\* twice, the second time only after the first closed non-zero with the
\* authentication-required text; nothing else invokes the extractor again: the
\* title lookup, the formats listing and the download stream run at most once
\* per request.
C6_NoOtherRetry ==
    \A r \in Requests :
        /\ SpawnCount(r, {"info"}) <= 1
        /\ SpawnCount(r, {"fallback"}) <= 1
        /\ proc[r].fallback.st # "none" => AuthBlocked(r)
        /\ SpawnCount(r, {"title"}) <= 1
        /\ SpawnCount(r, {"formats"}) <= 1
        /\ SpawnCount(r, {"stream", "estream"}) <= 1

\* C7, as stated: a first invocation that exits zero with well-formed JSON is
\* answered 200 with the title, duration, thumbnail, uploader and view_count
\* of that document.
C7_Original ==
    \A r \in Requests :
        (Exited(proc[r].info) /\ PCode(proc[r].info) = 0
            /\ Sc(proc[r].info.script).wf # "malformed")
          => AnsweredFrom(r, Sc(proc[r].info.script).doc)

\* C7, amended: the same, for well-formed JSON other than the literal null.
C7_SuccessMapsFields ==
    \A r \in Requests :
        (Exited(proc[r].info) /\ PCode(proc[r].info) = 0
            /\ Sc(proc[r].info.script).wf \notin {"malformed", "null"})
          => AnsweredFrom(r, Sc(proc[r].info.script).doc)

C7_Witness ==
    \E r1, r2 \in Requests :
        /\ Exited(proc[r1].info)
        /\ proc[r1].info.script = "docA"
        /\ req[r1].res.body.info.uploader = "Rick Astley"
        /\ Exited(proc[r2].info)
        /\ proc[r2].info.script = "docB-warn"
        /\ req[r2].res.body.info.view_count = "5"

\* the process whose 'close' handler answers a video-info request
Answering(r) == IF proc[r].fallback.st # "none" THEN proc[r].fallback ELSE proc[r].info

\* the diagnostic text a process wrote, or the stand-in for an empty one
Diagnostic(p) ==
    IF Sc(p.script).err = <<>> THEN <<"Unknown", "yt-dlp", "error">>
    ELSE Concat(Sc(p.script).err)

\* C8: on POST /api/video-info a non-zero exit that is not an anti-automation
\* block is answered 400 with the diagnostic text, a zero exit with malformed
\* output is answered 500, and the two are never confused: no 400 follows a
\* zero exit and no 500 follows a non-zero exit.
C8_FailureStatuses ==
    \A r \in Requests :
        req[r].ep = "info" =>
            /\ (Exited(proc[r].info) /\ PCode(proc[r].info) # 0
                   /\ ~Sc(proc[r].info.script).auth)
                  => (/\ AnsweredError(r, 400, E_Fetch)
                      /\ req[r].res.body.details = Diagnostic(proc[r].info))
            /\ (Exited(proc[r].info) /\ PCode(proc[r].info) = 0
                   /\ Sc(proc[r].info.script).wf = "malformed")
                  => AnsweredError(r, 500, E_Parse)
            /\ (req[r].res.status = 400 /\ SpawnedSlots(r) # {})
                  => (Exited(Answering(r)) /\ PCode(Answering(r)) # 0)
            /\ (req[r].res.status = 500 /\ Sc(Answering(r).script).launch)
                  => (/\ Exited(Answering(r))
                      /\ PCode(Answering(r)) = 0
                      /\ req[r].res.body.error = E_Parse)

C8_Witness ==
    \E r1, r2 \in Requests :
        /\ proc[r1].info.script = "unavailable"
        /\ AnsweredError(r1, 400, E_Fetch)
        /\ req[r1].res.body.details = <<"ERROR", "Video", "unavailable">>
        /\ proc[r2].info.script = "truncated"
        /\ AnsweredError(r2, 500, E_Parse)

\* C9: whenever the metadata invocation, its fallback retry, the formats
\* listing or the streaming invocation cannot be launched, the request is
\* answered 500 'Failed to execute video processor'.
C9_LaunchFailureIs500 ==
    \A r \in Requests :
        \A s \in {"info", "fallback", "formats", "stream", "estream"} :
            FailedToLaunch(proc[r][s]) => AnsweredError(r, 500, E_Exec)

\* C10: the gateway process keeps running unless SIGTERM or SIGINT was
\* received, and then it exits with code 0; no failure of an extractor process
\* brings it down.
C10_OnlySignalsStopServer ==
    server.up \/ (server.signalled /\ server.exitCode = 0)

(***************************************************************************)
(* Client disconnects.                                                     *)
(***************************************************************************)
\* C11: when the client disconnects while a download is streaming, every
\* streaming process of the request that was running at that moment is
\* terminated: none of them is running afterwards.
C11_DisconnectKillsStream ==
    \A r \in Requests :
        \A s \in StreamSlots :
            (req[r].closed /\ s \in req[r].closedWhile) => proc[r][s].st # "running"

C11_Witness ==
    \E r \in Requests :
        /\ req[r].closed
        /\ "stream" \in req[r].closedWhile
        /\ proc[r].stream.nout = 1
        /\ proc[r].stream.st = "terminated"

\* C12: after the client connection has closed, no extractor process of the
\* request (metadata, fallback retry, formats, title lookup, download stream)
\* is running, whenever the disconnect happened.
C12_DisconnectKillsAll ==
    \A r \in Requests :
        req[r].closed => \A s \in Slots : proc[r][s].st # "running"

(***************************************************************************)
(* POST /api/video-info on its own, with the callbacks of the event loop   *)
(* run whenever they are pending.                                          *)
(***************************************************************************)
InfoCallbacks(r) ==
    \/ InfoStdoutData(r)
    \/ InfoStderrData(r)
    \/ InfoClose(r)
    \/ InfoSpawnFailed(r)
    \/ FallbackStdoutData(r)
    \/ FallbackStderrData(r)
    \/ FallbackClose(r)
    \/ FallbackSpawnFailed(r)

NextInfo ==
    \/ \E r \in Requests, url \in InfoInputs : PostVideoInfo(r, url)
    \/ \E r \in Requests : InfoStdoutData(r)
    \/ \E r \in Requests : InfoStderrData(r)
    \/ \E r \in Requests : InfoClose(r)
    \/ \E r \in Requests : InfoSpawnFailed(r)
    \/ \E r \in Requests : FallbackStdoutData(r)
    \/ \E r \in Requests : FallbackStderrData(r)
    \/ \E r \in Requests : FallbackClose(r)
    \/ \E r \in Requests : FallbackSpawnFailed(r)

SpecInfoLive ==
    Init /\ [][NextInfo]_vars /\ \A r \in Requests : WF_vars(InfoCallbacks(r))

\* C13: every POST /api/video-info request that reached the extractor is
\* eventually answered (as long as the gateway is up), even when the
\* extractor never terminates.
C13_EventuallyAnswered ==
    \A r \in Requests :
        (req[r].ep = "info" /\ SpawnedSlots(r) # {}) ~> (req[r].res.ended \/ ~server.up)

(***************************************************************************)
(* Properties of the download.                                             *)
(***************************************************************************)
\* the bytes the process writes to its standard output
Produced(p) == Concat(Sc(p.script).out)

\* C14: when a streaming process of a download wrote its bytes and exited 0
\* (client still connected), the response body is exactly those bytes in
\* order, sent as video/mp4 with an attachment file name.
C14_BodyIsStreamOutput ==
    \A r \in Requests :
        \A s \in StreamSlots :
            (Exited(proc[r][s]) /\ PCode(proc[r][s]) = 0 /\ ~req[r].closed)
                => /\ req[r].res.bytes = Produced(proc[r][s])
                   /\ req[r].res.status = 200
                   /\ req[r].res.ctype = "video/mp4"
                   /\ req[r].res.filename # <<>>

\* C15: when the streaming process exits non-zero without having written
\* anything (so before any header was sent), the download is answered with an
\* error status.
C15_StreamFailureIsError ==
    \A r \in Requests :
        (Exited(proc[r].stream) /\ PCode(proc[r].stream) # 0
            /\ Produced(proc[r].stream) = <<>> /\ req[r].res.bytes = <<>>
            /\ ~req[r].closed)
          => req[r].res.status >= 400

\* the title lookup failed: it exited non-zero, or could not be launched
TitleFailed(r) ==
    \/ Exited(proc[r].title) /\ PCode(proc[r].title) # 0
    \/ FailedToLaunch(proc[r].title)

\* C16: a failed title lookup does not fail the download: the file name is
\* the default one, a streaming process is started, no error status is sent,
\* and the output of a streaming process that exits 0 is the response body.
C16_TitleFailureStillStreams ==
    \A r \in Requests :
        (req[r].ep = "download" /\ TitleFailed(r) /\ ~req[r].closed)
          => /\ req[r].res.filename = S_default \o S_mp4
             /\ SpawnedSlots(r) \cap StreamSlots # {}
             /\ req[r].res.status < 400
             /\ \A s \in StreamSlots :
                   (Exited(proc[r][s]) /\ PCode(proc[r][s]) = 0)
                      => req[r].res.bytes = Produced(proc[r][s])

(***************************************************************************)
(* The quality switch on its own: two requests, each with a quality value  *)
(* from the query string.                                                  *)
(***************************************************************************)
QualityNames == {"best", "4k", "1080p", "720p", "480p", "360p", "audio"}

\* the named selectors, an absent parameter, and values outside the list
QualityInputs == QualityNames \cup {"undefined", "4K", "worst", ""}

InitQuality ==
    /\ GatewayIdle
    /\ ValidatorIdle
    /\ JanitorIdle
    /\ fArg \in [1..2 -> QualityInputs]
    /\ fRes = [i \in 1..2 |-> "none"]
    /\ DoorIdle
    /\ AppIdle

\* let formatSelector; switch (quality) { ... }
SelectFormat(i) ==
    /\ fRes[i] = "none"
    /\ fRes' = [fRes EXCEPT ![i] = FormatSelector(QualityParam(fArg[i]))]
    /\ UNCHANGED <<gatewayVars, vParts, vUrl, vResult, fArg, janitorVars, door, app>>

NextQuality == \E i \in 1..2 : SelectFormat(i)

SpecQuality == InitQuality /\ [][NextQuality]_vars

\* C17: the quality mapping is total and deterministic: every value gets a
\* format-selection expression, the same value gets the same expression on
\* every request, and a value outside best, 4k, 1080p, 720p, 480p, 360p, audio
\* gets the expression of best.
C17_QualityMapping ==
    \A i, j \in 1..2 :
        (fRes[i] # "none" /\ fRes[j] # "none") =>
            /\ fRes[i] # ""
            /\ fArg[i] = fArg[j] => fRes[i] = fRes[j]
            /\ (fArg[i] = "best" /\ fArg[j] \notin QualityNames) => fRes[i] = fRes[j]

C17_Witness ==
    /\ fArg[1] = "best"
    /\ fArg[2] = "4K"
    /\ fRes[1] = "best"
    /\ fRes[2] = "best"

(***************************************************************************)
(* The title sanitizer on its own: applied to a raw title, and then to its *)
(* own result.                                                             *)
(***************************************************************************)
FillLen == 99

Rep(c, n) == [i \in 1..n |-> c]

TitleLeads == { <<>>, <<" ">>, <<"\n", "\t">> }

TitleBodies ==
    { <<>>,
      <<"M","e"," ","a","t">>,
      <<"t","h","e","-","z","o","o","!">>,
      <<"a"," "," ","b">>,
      <<"R","&","B",":"," ","5","0","%">>,
      <<"x","_","y"," ","\t","z">>,
      <<"?"," ","!">>,
      Rep("a", FillLen) \o <<" ", "?", " ", "b", "c">>,
      Rep("-", FillLen) \o <<"z", "\n", "w", ".", "m", "p", "4">> }

TitleTrails == { <<>>, <<" ">>, <<"!", "\n">>, <<" ", "_">> }

RawTitles == {l \o b \o t : l \in TitleLeads, b \in TitleBodies, t \in TitleTrails}

InitTitle ==
    /\ GatewayIdle
    /\ ValidatorIdle
    /\ JanitorIdle
    /\ fArg \in RawTitles
    /\ fRes = <<>>
    /\ DoorIdle
    /\ AppIdle

\* rawTitle.trim().replace(...).replace(...).substring(0, 100)
SanitizeTitle ==
    /\ Len(fRes) < 2
    /\ fRes' = Append(fRes, Sanitize(IF fRes = <<>> THEN fArg ELSE fRes[Len(fRes)]))
    /\ UNCHANGED <<gatewayVars, vParts, vUrl, vResult, fArg, janitorVars, door, app>>

NextTitle == SanitizeTitle

SpecTitle == InitTitle /\ [][NextTitle]_vars

\* letters, digits, underscore, hyphen
SafeFilenameChar(c) == c \in Letters \cup Digits \cup {"_", "-"}

\* C18: the sanitized title has at most 100 characters, all of them letters,
\* digits, underscores or hyphens, and sanitizing it again changes nothing.
C18_SanitizeIdempotentBounded ==
    /\ \A k \in 1..Len(fRes) :
          /\ Len(fRes[k]) <= TitleMaxLen
          /\ \A n \in 1..Len(fRes[k]) : SafeFilenameChar(fRes[k][n])
    /\ Len(fRes) = 2 => fRes[2] = fRes[1]

C18_Witness ==
    /\ Len(fRes) = 2
    /\ Len(fArg) > TitleMaxLen
    /\ Len(fRes[1]) = TitleMaxLen
    /\ fRes[1][TitleMaxLen] = "_"

(***************************************************************************)
(* The janitor on its own: one sweep over a scratch directory.             *)
(***************************************************************************)
InitJanitor ==
    /\ GatewayIdle
    /\ ValidatorIdle
    /\ FunctionIdle
    /\ tempDir \in [Entries -> EntryStates]
    /\ sweep = IdleSweep
    /\ clock = SweepTime
    /\ timer = SweepTime
    /\ DoorIdle
    /\ AppIdle

NextJanitor ==
    \/ SweepStart
    \/ SweepStat
    \/ SweepUnlink

SpecJanitor == InitJanitor /\ [][NextJanitor]_vars

\* the entry was in the directory when the sweep started, older than the
\* retention window at that moment
WasOld(f) == sweep.start[f].present /\ IsOld(sweep.now, sweep.start[f].mtime)

\* C19: when a sweep has completed, no entry that was in the scratch
\* directory at its start with an age over the retention window is left.
C19_SweepLeavesNoOldEntry ==
    sweep.pc = "done" => \A f \in Entries : WasOld(f) => ~tempDir[f].present

\* C20: when inspecting or deleting an entry fails during a sweep, the error
\* is logged and the sweep goes on: every other old file is deleted by the
\* time the sweep completes.
C20_ErrorDoesNotAbortSweep ==
    (sweep.pc = "done" /\ sweep.logged > 0) =>
        \A f \in Entries :
            (f # sweep.failedAt /\ WasOld(f) /\ sweep.start[f].kind = "file")
                => ~tempDir[f].present

(***************************************************************************)
(* The janitor under its timer: the server starts at time 0 with an empty  *)
(* scratch directory, entries are written at any time, and the sweep runs  *)
(* every hour.                                                             *)
(***************************************************************************)
InitTimer ==
    /\ GatewayIdle
    /\ ValidatorIdle
    /\ FunctionIdle
    /\ tempDir = EmptyDir
    /\ sweep = IdleSweep
    /\ clock = 0
    /\ timer = IntervalMs
    /\ DoorIdle
    /\ AppIdle

NextTimer ==
    \/ Tick
    \/ \E f \in Entries : WriteFile(f)
    \/ TimerFires
    \/ SweepStat
    \/ SweepUnlink
    \/ SweepReturn

SpecTimer == InitTimer /\ [][NextTimer]_vars

\* C21: at every moment while the server runs, no entry of the scratch
\* directory is older than the retention window.
C21_NoEntryPastRetention ==
    \A f \in Entries : tempDir[f].present => clock - tempDir[f].mtime <= RetentionMs

\* C28: every entry a sweep unlinks had, when it was unlinked, a modification
\* time more than the retention window before the start of the sweep.
C28_OnlyOldEntriesUnlinked ==
    \A u \in sweep.unlinked : sweep.now - u.mtime > RetentionMs

(***************************************************************************)
(* The origin decision of the cors middleware on its own: one request,     *)
(* with or without an Origin header, passes app.use(cors({...})).          *)
(***************************************************************************)
allowedOrigins ==
    << "https://yt-video-downloader-lilac.vercel.app",
       "http://localhost:5173",
       "http://localhost:3000",
       "https://your-frontend-domain.com" >>

\* Array.prototype.indexOf: the first index (from 0) of a strictly equal
\* element, or -1
IndexOf(arr, x) ==
    IF \E k \in 1..Len(arr) : arr[k] = x
    THEN (CHOOSE k \in 1..Len(arr) : arr[k] = x /\ \A j \in 1..(k - 1) : arr[j] # x) - 1
    ELSE 0 - 1

\* req.headers.origin: absent, or the value of the header
NoOrigin == [present |-> FALSE, value |-> ""]

Origin(v) == [present |-> TRUE, value |-> v]

\* !origin
OriginFalsy(origin) == ~origin.present \/ origin.value = ""

\* the origin function of an earlier revision: an unlisted origin is logged
\* and allowed
OriginCallbackLogOnly(origin) ==
    [err |-> FALSE, allow |-> TRUE, logged |-> ~OriginFalsy(origin) /\ IndexOf(allowedOrigins, origin.value) = 0 - 1]

\* origin: function (origin, callback) { ... }
OriginCallback(origin) ==
    IF OriginFalsy(origin)
    THEN [err |-> FALSE, allow |-> TRUE, logged |-> FALSE]
    ELSE IF IndexOf(allowedOrigins, origin.value) # 0 - 1
         THEN [err |-> FALSE, allow |-> TRUE, logged |-> FALSE]
         ELSE [err |-> TRUE, allow |-> FALSE, logged |-> TRUE]

\* methods: [...] of the cors options
CorsMethods == {"GET", "POST", "PUT", "DELETE", "OPTIONS"}

\* the cors middleware with an origin function: an error goes to next(err)
\* (no route runs, no Access-Control-Allow-Origin); otherwise the request's
\* origin is reflected, a preflight is ended with optionsSuccessStatus and
\* any other request goes on to the routes
CorsMiddleware(request) ==
    LET d == OriginCallback(request.origin)
    IN  IF d.err \/ ~d.allow
        THEN [acao |-> "", credentials |-> FALSE, next |-> "error", status |-> 500]
        ELSE [acao |-> IF request.origin.present THEN request.origin.value ELSE "",
              credentials |-> TRUE,
              next |-> IF request.method = "OPTIONS" THEN "ended" ELSE "route",
              status |-> 200]

\* Origin headers a client can send: none, empty, the listed ones, and
\* unlisted ones that differ from a listed one by scheme, case, port, a
\* trailing slash or a suffix
OriginInputs ==
    {NoOrigin, Origin("")}
    \cup {Origin(allowedOrigins[k]) : k \in 1..Len(allowedOrigins)}
    \cup {Origin(v) : v \in {"http://yt-video-downloader-lilac.vercel.app",
                            "https://yt-video-downloader-lilac.vercel.app/",
                            "https://YT-video-downloader-lilac.vercel.app",
                            "https://yt-video-downloader-lilac.vercel.app.evil.example",
                            "http://localhost:5174",
                            "http://localhost",
                            "https://evil.example",
                            "null"}}

InitCors ==
    /\ GatewayIdle
    /\ ValidatorIdle
    /\ JanitorIdle
    /\ fArg \in [origin : OriginInputs, method : CorsMethods]
    /\ fRes = <<>>
    /\ DoorIdle
    /\ AppIdle

\* the request passes the middleware
PassCors ==
    /\ fRes = <<>>
    /\ fRes' = <<CorsMiddleware(fArg)>>
    /\ UNCHANGED <<gatewayVars, vParts, vUrl, vResult, fArg, janitorVars, door, app>>

NextCors == PassCors

SpecCors == InitCors /\ [][NextCors]_vars

\* the request was not turned away by the origin decision
Granted(res) == res.next # "error"

AllowList == {allowedOrigins[k] : k \in 1..Len(allowedOrigins)}

\* C22: a request is granted cross-origin access exactly when it declares no
\* origin or its origin is in the allow-list; a granted origin is the one
\* reflected, and a request that is not granted gets no allow-origin header.
C22_GrantIffAbsentOrListed ==
    fRes # <<>> =>
        LET o == fArg.origin
            res == fRes[1]
        IN  /\ Granted(res) <=> (~o.present \/ o.value = "" \/ o.value \in AllowList)
            /\ Granted(res) => res.acao = o.value
            /\ ~Granted(res) => res.acao = ""

C22_Witness ==
    /\ fRes # <<>>
    /\ fArg.origin = Origin("https://yt-video-downloader-lilac.vercel.app/")
    /\ fArg.method = "POST"
    /\ fRes[1].next = "error"

(***************************************************************************)
(* The limiter on its own: two clients send requests for the routes that   *)
(* take no extractor while time passes in steps of half a window.          *)
(***************************************************************************)
InitDoor ==
    /\ GatewayIdle
    /\ ValidatorIdle
    /\ FunctionIdle
    /\ tempDir = EmptyDir
    /\ sweep = IdleSweep
    /\ timer = IntervalMs
    /\ clock = 0
    /\ DoorIdle
    /\ AppIdle

NextDoor ==
    \/ \E c \in Clients, path \in DoorPaths : DoorRequest(c, path)
    \/ DoorStep

SpecDoor == InitDoor /\ [][NextDoor]_vars

\* requests of client c that reached a route handler in the window of two
\* steps that ends now
ReachedInWindow(c) == door.reached[c].prev + door.reached[c].cur

\* C23: in every window of 15 minutes at most the threshold of requests of
\* one client address reach a route handler; a request the limiter rejects
\* gets the fixed message and reaches no handler; and a client that is
\* within its own threshold is never rejected, whatever other clients sent.
C23_AtMostMaxPerWindow ==
    /\ \A c \in Clients : ReachedInWindow(c) <= Max
    /\ door.last.status = 429 => (door.last.body = LimitMessage /\ ~door.last.handler)
    /\ (door.last.client = "b" /\ UnderApi(door.last.path)) => door.last.handler

(***************************************************************************)
(* The presentation client against the gateway's router: the user presses  *)
(* one of the two buttons, the client issues its request (or none), and    *)
(* the router picks the route registered for the method and the path.      *)
(***************************************************************************)
\* the path of API_BASE_URL = 'http://localhost:3001/api'
API_BASE_PATH == "/api"

NoParams == [present |-> FALSE, url |-> <<>>, quality |-> ""]

Params(url, quality) == [present |-> TRUE, url |-> url, quality |-> quality]

NoCall == [sent |-> FALSE, method |-> "", path |-> "", query |-> NoParams, body |-> NoParams]

\* fetch(`${API_BASE_URL}/video-info`, { method: 'POST', body: { url } })
fetchVideoInfo(url) ==
    IF Trim(url) = <<>>
    THEN NoCall
    ELSE [sent |-> TRUE, method |-> "POST", path |-> API_BASE_PATH \o "/video-info",
          query |-> NoParams, body |-> Params(Trim(url), "")]

\* fetch(`${API_BASE_URL}/download`, { method: 'POST', body: { url, quality } })
downloadVideo(url, quality) ==
    IF Trim(url) = <<>>
    THEN NoCall
    ELSE [sent |-> TRUE, method |-> "POST", path |-> API_BASE_PATH \o "/download",
          query |-> NoParams, body |-> Params(Trim(url), quality)]

\* the routes the gateway registers
Routes ==
    { [method |-> "GET",  path |-> "/",               handler |-> "root"],
      [method |-> "GET",  path |-> "/api/",           handler |-> "api-root"],
      [method |-> "POST", path |-> "/api/video-info", handler |-> "video-info"],
      [method |-> "GET",  path |-> "/api/download",   handler |-> "download"],
      [method |-> "POST", path |-> "/api/formats",    handler |-> "formats"],
      [method |-> "GET",  path |-> "/api/health",     handler |-> "health"] }

\* the router: the handler registered for the method and path, or the
\* framework's 404 ("Cannot POST /api/download")
Dispatch(call) ==
    IF \E rt \in Routes : rt.method = call.method /\ rt.path = call.path
    THEN (CHOOSE rt \in Routes : rt.method = call.method /\ rt.path = call.path).handler
    ELSE "404"

\* the <option> values of the quality selector
QualityOptions == {"best", "4k", "1080p", "720p"}

\* what the user typed into the URL field
UrlTexts ==
    { <<>>, <<" ", " ">>, S_videoUrl, <<" ">> \o S_videoUrl \o <<" ">>,
      S_videoUrl \o <<"\n">>, S_notAUrl, <<" ">> \o S_notAUrl }

ClientActions == {"fetchVideoInfo", "downloadVideo"}

InitClient ==
    /\ GatewayIdle
    /\ ValidatorIdle
    /\ JanitorIdle
    /\ DoorIdle
    /\ AppIdle
    /\ fArg \in [action : ClientActions, url : UrlTexts, quality : QualityOptions]
    /\ fRes = <<>>

\* the button is pressed and the request, if one is issued, is routed
Press ==
    /\ fRes = <<>>
    /\ LET call == IF fArg.action = "downloadVideo"
                   THEN downloadVideo(fArg.url, fArg.quality)
                   ELSE fetchVideoInfo(fArg.url)
       IN  fRes' = <<[call |-> call, route |-> IF call.sent THEN Dispatch(call) ELSE "none"]>>
    /\ UNCHANGED <<gatewayVars, vParts, vUrl, vResult, fArg, janitorVars, door, app>>

NextClient == Press

SpecClient == InitClient /\ [][NextClient]_vars

\* C26: a download the client starts is a GET of /api/download with url and
\* quality as query parameters, and reaches the gateway's download handler.
C26_DownloadReachesHandler ==
    (fRes # <<>> /\ fArg.action = "downloadVideo" /\ fRes[1].call.sent) =>
        /\ fRes[1].call.method = "GET"
        /\ fRes[1].call.path = "/api/download"
        /\ fRes[1].call.query = Params(Trim(fArg.url), fArg.quality)
        /\ fRes[1].route = "download"

(***************************************************************************)
(* Claims about the gateway's responses and download processes.            *)
(***************************************************************************)
\* C29: no request gets a second status line, and no handler tries to write
\* a header or a status once the head of the response has been sent.
C29_AtMostOneResponse ==
    /\ \A r \in Requests : req[r].res.sends <= 1
    /\ server.error # "ERR_HTTP_HEADERS_SENT"

\* the extractor could not be launched: 'error' answered 500, and the 'close'
\* handler that ran after it left the response alone
C29_Witness ==
    \E r \in Requests :
        /\ req[r].ep = "info"
        /\ proc[r].info.st = "closed"
        /\ proc[r].info.script = LaunchFailure
        /\ req[r].res.status = 500
        /\ req[r].res.body.error = E_Exec
        /\ req[r].res.sends = 1

\* C24: a request that was accepted and is left without a response because
\* the gateway went down without a signal is the request whose own process
\* could not be launched; no request loses its response to another one's.
C24_NoCrossRequestEffect ==
    \A r \in Requests :
        (Handled(r) /\ ~req[r].res.ended /\ ~server.up /\ ~server.signalled)
            => \E s \in Slots : proc[r][s].st = "errored"

\* the invocation a metadata answer is to come from: the retry when one was
\* started, the first invocation otherwise
Answerer(r) == IF proc[r].fallback.st # "none" THEN proc[r].fallback ELSE proc[r].info

\* C25: a 200 answer of the metadata endpoint carries the members of the
\* complete standard output of one invocation that has closed with exit code
\* 0: the retry when one was started, the first invocation otherwise.
C25_OneInvocationAnswers ==
    \A r \in Requests :
        (req[r].ep = "info" /\ req[r].res.status = 200) =>
            LET p == Answerer(r)
                j == JSONparse(Produced(p))
            IN  /\ Exited(p)
                /\ PCode(p) = 0
                /\ p.nout = Len(Sc(p.script).out)
                /\ j.kind \notin {"error", "null"}
                /\ req[r].res.body = InfoBody(j.obj)

\* the first invocation wrote half a document and was refused; the answer is
\* the retry's document
C25_Witness ==
    \E r \in Requests :
        /\ req[r].ep = "info"
        /\ proc[r].info.script = "auth-partial"
        /\ req[r].videoInfo # <<>>
        /\ proc[r].fallback.script = "docA"
        /\ req[r].res.status = 200
        /\ req[r].res.body = InfoBody(DocA)

\* C27: a streaming process exists only once the title process has
\* terminated, and no byte is relayed before Content-Type and
\* Content-Disposition are set.
C27_TitleThenHeadersThenBytes ==
    \A r \in Requests :
        /\ SpawnedSlots(r) \cap StreamSlots # {} => proc[r].title.st = "closed"
        /\ req[r].res.bytes # <<>> =>
              /\ req[r].res.ctype = "video/mp4"
              /\ req[r].res.filename # <<>>
              /\ SpawnedSlots(r) \cap StreamSlots # {}

\* the title was read, the headers carry it, and the first chunk is relayed
C27_Witness ==
    \E r \in Requests :
        /\ Exited(proc[r].title)
        /\ PCode(proc[r].title) = 0
        /\ proc[r].stream.st = "running"
        /\ req[r].res.filename = req[r].title \o S_mp4
        /\ req[r].title # <<>>
        /\ Len(req[r].res.bytes) = 2

\* C30: whatever the order of the title process's events, a download has at
\* most one streaming process.
C30_AtMostOneStream ==
    \A r \in Requests : Cardinality(SpawnedSlots(r) \cap StreamSlots) <= 1

(***************************************************************************)
(* The presentation client under its user and the answers of the server.   *)
(***************************************************************************)
\* onChange={(e) => setUrl(e.target.value)}
SetUrl(v) ==
    /\ app.url # v
    /\ app' = [app EXCEPT !.url = v]
    /\ UNCHANGED <<gatewayVars, harnessVars, janitorVars, door>>

\* onChange={(e) => setQuality(e.target.value)}: the selector is rendered
\* when videoInfo is set
SetQuality(v) ==
    /\ app.videoInfo.present
    /\ app.quality # v
    /\ app' = [app EXCEPT !.quality = v]
    /\ UNCHANGED <<gatewayVars, harnessVars, janitorVars, door>>

\* fetchVideoInfo up to its await: the state is reset and the request leaves
BeginFetch ==
    LET call == fetchVideoInfo(app.url)
    IN  /\ call.sent
        /\ app.issued < MaxFetches
        /\ app' = [app EXCEPT
               !.downloadState = [isLoading |-> TRUE, isDownloading |-> FALSE,
                                  error |-> "", success |-> FALSE],
               !.videoInfo = NoVideoInfo,
               !.issued = @ + 1,
               !.latest = "pending",
               !.fetches = @ \cup {[id |-> app.issued + 1, url |-> call.body.url]}]
        /\ UNCHANGED <<gatewayVars, harnessVars, janitorVars, door>>

\* the Get Video Info button: disabled={!url.trim() || downloadState.isLoading}
ClickGetInfo ==
    /\ Trim(app.url) # <<>>
    /\ ~app.downloadState.isLoading
    /\ BeginFetch

\* onKeyPress={(e) => e.key === 'Enter' && fetchVideoInfo()}
PressEnter ==
    /\ Trim(app.url) # <<>>
    /\ BeginFetch

\* the response of a metadata request arrives: setVideoInfo(data) and a clean
\* downloadState when response.ok, the error message otherwise
InfoResponse(f, ok) ==
    /\ f \in app.fetches
    /\ app' = [app EXCEPT
           !.fetches = @ \ {f},
           !.latest = IF f.id = app.issued THEN (IF ok THEN "ok" ELSE "failed") ELSE @,
           !.videoInfo = IF ok
                         THEN [present |-> TRUE, title |-> TitleOf(f.url),
                               for |-> f.url, from |-> f.id]
                         ELSE @,
           !.downloadState = [isLoading |-> FALSE, isDownloading |-> FALSE,
                              error |-> IF ok THEN "" ELSE "Failed to fetch video information",
                              success |-> FALSE]]
    /\ UNCHANGED <<gatewayVars, harnessVars, janitorVars, door>>

\* the Download button, rendered when videoInfo is set and
\* disabled={downloadState.isDownloading}: downloadVideo up to its await
ClickDownload ==
    LET call == downloadVideo(app.url, app.quality)
    IN  /\ app.videoInfo.present
        /\ ~app.downloadState.isDownloading
        /\ call.sent
        /\ app.started < MaxDownloads
        /\ app' = [app EXCEPT
               !.downloadState = [isLoading |-> FALSE, isDownloading |-> TRUE,
                                  error |-> "", success |-> FALSE],
               !.started = @ + 1,
               !.downloads = @ \cup {[id |-> app.started + 1, url |-> call.body.url,
                                      quality |-> call.body.quality,
                                      title |-> app.videoInfo.title,
                                      shown |-> app.videoInfo.for]}]
        /\ UNCHANGED <<gatewayVars, harnessVars, janitorVars, door>>

\* the response of a download arrives: the blob is saved as
\* `${videoInfo?.title || 'video'}.mp4` and the reset timer is set when
\* response.ok, the error message otherwise
DownloadResponse(d, ok) ==
    /\ d \in app.downloads
    /\ app' = [app EXCEPT
           !.downloads = @ \ {d},
           !.timers = IF ok THEN @ + 1 ELSE @,
           !.downloadState = [isLoading |-> FALSE, isDownloading |-> FALSE,
                              error |-> IF ok THEN "" ELSE "Download failed",
                              success |-> ok]]
    /\ UNCHANGED <<gatewayVars, harnessVars, janitorVars, door>>

\* setTimeout(() => setDownloadState(prev => ({ ...prev, success: false })), 3000)
SuccessTimeout ==
    /\ app.timers > 0
    /\ app' = [app EXCEPT !.timers = @ - 1, !.downloadState.success = FALSE]
    /\ UNCHANGED <<gatewayVars, harnessVars, janitorVars, door>>

InitApp ==
    /\ GatewayIdle
    /\ ValidatorIdle
    /\ FunctionIdle
    /\ JanitorIdle
    /\ DoorIdle
    /\ AppIdle

NextApp ==
    \/ \E v \in FieldTexts : SetUrl(v)
    \/ \E v \in QualityOptions : SetQuality(v)
    \/ ClickGetInfo
    \/ PressEnter
    \/ \E f \in app.fetches, ok \in BOOLEAN : InfoResponse(f, ok)
    \/ ClickDownload
    \/ \E d \in app.downloads, ok \in BOOLEAN : DownloadResponse(d, ok)
    \/ SuccessTimeout

SpecApp == InitApp /\ [][NextApp]_vars

\* C31: once no metadata request is in flight, what is displayed is the
\* outcome of the metadata request issued last: its video when it succeeded,
\* no video when it failed, and (as long as no download was started) an error
\* message exactly when it failed.
C31_LatestFetchDisplayed ==
    (app.fetches = {} /\ app.issued > 0) =>
        /\ app.latest = "ok" => (app.videoInfo.present /\ app.videoInfo.from = app.issued)
        /\ app.latest = "failed" => ~app.videoInfo.present
        /\ app.started = 0 => (app.downloadState.error # "" <=> app.latest = "failed")

\* C32: at most one download request is in flight.
C32_OneDownloadInFlight == Cardinality(app.downloads) <= 1

\* C33: a download request carries the URL of the metadata request that
\* produced the displayed video, and the file is named after that URL's video.
C33_DownloadsDisplayedVideo ==
    \A d \in app.downloads :
        /\ d.url = d.shown
        /\ d.title = TitleOf(d.url)

====
